---- MODULE Spec2Model ----
(***************************************************************************)
(* The UMMC nutrition formulary (src/app.py): load_data, which turns the    *)
(* raw nutrient-by-product table into the Card View (df_cards) and the      *)
(* Calculation View (df_calc), and the goal rate and protein calculator.    *)
(*                                                                          *)
(* Text is a sequence of one-character strings, so that str.strip,          *)
(* str.split, str.replace, the substring test and float() are computed      *)
(* character by character.  A float is a record: a finite value is an exact *)
(* reduced fraction num/den, and nan, inf and -inf are values of their own  *)
(* with the IEEE rules for the operations the program applies to them.      *)
(* Rounding error of binary floating point is not modelled.                 *)
(***************************************************************************)
EXTENDS Integers, Sequences, FiniteSets, TLC

VARIABLES phase, raw_df, df_cards, df_calc, error, calc

vars == <<phase, raw_df, df_cards, df_calc, error, calc>>

(***************************************************************************)
(* Text literals of the program.                                            *)
(***************************************************************************)
LabelNutrientAttribute == <<"N", "u", "t", "r", "i", "e", "n", "t", "/", "A", "t", "t", "r", "i", "b", "u", "t", "e">>
LabelProductName == <<"P", "r", "o", "d", "u", "c", "t", " ", "N", "a", "m", "e">>
LabelIndex == <<"i", "n", "d", "e", "x">>
LabelLevel0 == <<"l", "e", "v", "e", "l", "_", "0">>
PctCalories == <<"%", " ", "C", "a", "l", "o", "r", "i", "e", "s">>
labels == << <<"%", " ", "C", "a", "l", " ", "(", "P", "r", "o", "t", ")">>,
             <<"%", " ", "C", "a", "l", " ", "(", "F", "a", "t", ")">>,
             <<"%", " ", "C", "a", "l", " ", "(", "C", "H", "O", ")">> >>
ColDensity == <<"D", "e", "n", "s", "i", "t", "y">>
ColDensityNum == <<"d", "e", "n", "s", "i", "t", "y", "_", "n", "u", "m">>
ColProteinNum == <<"p", "r", "o", "t", "e", "i", "n", "_", "n", "u", "m">>
ColCategory == <<"C", "a", "t", "e", "g", "o", "r", "y">>
ProteinGL == <<"P", "r", "o", "t", "e", "i", "n", " ", "(", "g", "/", "L", ")">>
Modular == <<"M", "o", "d", "u", "l", "a", "r">>
Formula == <<"F", "o", "r", "m", "u", "l", "a">>
ProsourceTF20 == <<"P", "r", "o", "s", "o", "u", "r", "c", "e", " ", "T", "F", "2", "0">>
NutrisourceFiber == <<"N", "u", "t", "r", "i", "s", "o", "u", "r", "c", "e", " ", "F", "i", "b", "e", "r">>
MCToil == <<"M", "C", "T", " ", "o", "i", "l">>
modular_names == <<ProsourceTF20, NutrisourceFiber, MCToil>>

\* The missing-value marker of a cell pandas read as NaN; no text equals it.
NULL == <<"<NaN>">>
EmptyText == <<>>

(***************************************************************************)
(* Floats.                                                                  *)
(***************************************************************************)
Abs(n) == IF n < 0 THEN -n ELSE n

RECURSIVE GCD(_, _)
GCD(a, b) == IF b = 0 THEN a ELSE GCD(b, a % b)

\* The finite float n/d (d # 0), reduced, with a positive denominator.
Fin(n, d) ==
    LET g == GCD(Abs(n), Abs(d))
        s == IF d < 0 THEN -1 ELSE 1
    IN  [kind |-> "fin", num |-> s * (n \div g), den |-> s * (d \div g)]

NaN == [kind |-> "nan", num |-> 0, den |-> 1]
PosInf == [kind |-> "inf", num |-> 1, den |-> 1]
NegInf == [kind |-> "inf", num |-> -1, den |-> 1]
Zero == Fin(0, 1)
FInt(n) == Fin(n, 1)

\* -1, 0 or 1; a nan has no sign and is asked for none.
Sign(x) == IF x.num > 0 THEN 1 ELSE IF x.num < 0 THEN -1 ELSE 0

\* x > y, x >= y, x <= y as IEEE comparisons: false when either side is nan.
FGt(x, y) ==
    /\ x.kind # "nan" /\ y.kind # "nan"
    /\ IF x.kind = "fin" /\ y.kind = "fin" THEN x.num * y.den > y.num * x.den
       ELSE IF x.kind = "inf" /\ y.kind = "inf" THEN x.num > y.num
       ELSE IF x.kind = "inf" THEN x.num > 0
       ELSE y.num < 0
FGe(x, y) == x.kind # "nan" /\ y.kind # "nan" /\ (x = y \/ FGt(x, y))
FLe(x, y) == x.kind # "nan" /\ y.kind # "nan" /\ ~FGt(x, y)

FNeg(x) == IF x.kind = "fin" THEN Fin(-x.num, x.den)
           ELSE IF x.kind = "inf" THEN [x EXCEPT !.num = -x.num]
           ELSE NaN

FAdd(x, y) ==
    IF x.kind = "nan" \/ y.kind = "nan" THEN NaN
    ELSE IF x.kind = "fin" /\ y.kind = "fin"
         THEN Fin(x.num * y.den + y.num * x.den, x.den * y.den)
    ELSE IF x.kind = "inf" /\ y.kind = "inf" THEN (IF x.num = y.num THEN x ELSE NaN)
    ELSE IF x.kind = "inf" THEN x
    ELSE y

FSub(x, y) == FAdd(x, FNeg(y))

FMul(x, y) ==
    IF x.kind = "nan" \/ y.kind = "nan" THEN NaN
    ELSE IF x.kind = "fin" /\ y.kind = "fin" THEN Fin(x.num * y.num, x.den * y.den)
    ELSE IF Sign(x) = 0 \/ Sign(y) = 0 THEN NaN
    ELSE IF Sign(x) = Sign(y) THEN PosInf ELSE NegInf

\* x / y for a finite x and a y that is not zero (the program divides by
\* nothing else).
FDiv(x, y) ==
    IF y.kind = "nan" THEN NaN
    ELSE IF y.kind = "inf" THEN Zero
    ELSE Fin(x.num * y.den, x.den * y.num)

\* Python 3 round(x) of a finite float: the nearest integer, a tie going to
\* the even one.
PyRound(x) ==
    LET q == x.num \div x.den
        r == x.num % x.den
    IN  IF 2 * r < x.den THEN q
        ELSE IF 2 * r > x.den THEN q + 1
        ELSE IF q % 2 = 0 THEN q ELSE q + 1

(***************************************************************************)
(* Text operations.                                                         *)
(***************************************************************************)
IsSpace(ch) == ch = " "

RECURSIVE LStrip(_)
LStrip(s) == IF s # <<>> /\ IsSpace(Head(s)) THEN LStrip(Tail(s)) ELSE s

RECURSIVE RStrip(_)
RStrip(s) == IF s # <<>> /\ IsSpace(s[Len(s)]) THEN RStrip(SubSeq(s, 1, Len(s) - 1)) ELSE s

\* str.strip()
Strip(s) == RStrip(LStrip(s))

\* pat in s
Contains(s, pat) ==
    \E i \in 1..(Len(s) - Len(pat) + 1) : SubSeq(s, i, i + Len(pat) - 1) = pat

RECURSIVE TakeWord(_)
TakeWord(s) == IF s = <<>> \/ IsSpace(Head(s)) THEN <<>> ELSE <<Head(s)>> \o TakeWord(Tail(s))

\* str.split(): the first whitespace-delimited token, and whether there is one.
HasToken(s) == LStrip(s) # <<>>
FirstToken(s) == TakeWord(LStrip(s))

\* str.replace(',', '')
RemoveCommas(s) == SelectSeq(s, LAMBDA ch : ch # ",")

Digits == {"0", "1", "2", "3", "4", "5", "6", "7", "8", "9"}
DigitVal(ch) == CHOOSE n \in 0..9 : ToString(n) = ch

RECURSIVE DigitsValue(_)
DigitsValue(s) == IF s = <<>> THEN 0 ELSE 10 * DigitsValue(SubSeq(s, 1, Len(s) - 1)) + DigitVal(s[Len(s)])

RECURSIVE Pow10(_)
Pow10(n) == IF n = 0 THEN 1 ELSE 10 * Pow10(n - 1)

DotAt(s) == IF \E i \in 1..Len(s) : s[i] = "." THEN CHOOSE i \in 1..Len(s) : s[i] = "." ELSE 0

\* An unsigned decimal literal: digits with at most one point and at least
\* one digit.
IsDecimal(s) ==
    /\ \A i \in 1..Len(s) : s[i] \in Digits \cup {"."}
    /\ Cardinality({i \in 1..Len(s) : s[i] = "."}) <= 1
    /\ \E i \in 1..Len(s) : s[i] \in Digits

DecimalValue(s) ==
    LET digs == SelectSeq(s, LAMBDA ch : ch # ".")
        frac == IF DotAt(s) = 0 THEN 0 ELSE Len(s) - DotAt(s)
    IN  Fin(DigitsValue(digs), Pow10(frac))

\* float(s) for a token s: [ok |-> FALSE] is the ValueError.  Literals with an
\* exponent, an underscore or capital letters are not among the modelled
\* cells.
PyFloat(s) ==
    LET signed == s # <<>> /\ Head(s) \in {"+", "-"}
        body == IF signed THEN Tail(s) ELSE s
        neg == signed /\ Head(s) = "-"
    IN  IF body = <<"n", "a", "n">> THEN [ok |-> TRUE, val |-> NaN]
        ELSE IF body \in {<<"i", "n", "f">>, <<"i", "n", "f", "i", "n", "i", "t", "y">>}
             THEN [ok |-> TRUE, val |-> IF neg THEN NegInf ELSE PosInf]
        ELSE IF IsDecimal(body)
             THEN [ok |-> TRUE, val |-> IF neg THEN FNeg(DecimalValue(body)) ELSE DecimalValue(body)]
        ELSE [ok |-> FALSE, val |-> Zero]

\* to_num: float(str(val).split()[0].replace(',', '')), and 0.0 when that
\* raises (no token, or a token float() rejects).
to_num(val) ==
    IF ~HasToken(val) THEN Zero
    ELSE LET f == PyFloat(RemoveCommas(FirstToken(val)))
         IN  IF f.ok THEN f.val ELSE Zero

(***************************************************************************)
(* Data frames.  A frame is [columns, data]: the column labels in order and *)
(* the rows, each a sequence of cells aligned with the columns, so that two *)
(* columns may carry the same label.  A cell is a text, NULL, or a float.   *)
(***************************************************************************)
FloatCell(f) == <<"#float", f>>
CellFloat(c) == c[2]

Positions(cols, name) == {i \in 1..Len(cols) : cols[i] = name}

\* DataFrame.fillna("")
fillna(df) ==
    [df EXCEPT !.data = [r \in DOMAIN @ |->
        [j \in DOMAIN @[r] |-> IF @[r][j] = NULL THEN EmptyText ELSE @[r][j]]]]

\* DataFrame.rename(columns={old: new})
RenameColumns(df, old, new) ==
    [df EXCEPT !.columns = [i \in DOMAIN @ |-> IF @[i] = old THEN new ELSE @[i]]]

\* df[name] = values: every column labelled name is overwritten in place; a
\* new column is appended when there is none.
SetColumn(df, name, values) ==
    IF Positions(df.columns, name) # {}
    THEN [df EXCEPT !.data = [r \in DOMAIN @ |->
             [j \in DOMAIN @[r] |-> IF df.columns[j] = name THEN values[r] ELSE @[r][j]]]]
    ELSE [columns |-> Append(df.columns, name),
          data |-> [r \in DOMAIN df.data |-> Append(df.data[r], values[r])]]

\* The one column labelled name (the caller has checked that it is the only one).
Column(df, name) ==
    LET j == CHOOSE i \in Positions(df.columns, name) : TRUE
    IN  [r \in DOMAIN df.data |-> df.data[r][j]]

\* The label reset_index gives the column holding the old index.
ResetIndexLabel(attrs) ==
    IF \E i \in DOMAIN attrs : attrs[i] = LabelIndex THEN LabelLevel0 ELSE LabelIndex

\* raw_df.set_index(raw_df.columns[0]).T.reset_index(): one row per product
\* column, holding the product's label and then its cell of every attribute
\* row; the columns are the index label and then the attribute names.
Transposed(df) ==
    LET attrs == [i \in DOMAIN df.data |-> df.data[i][1]]
        np == Len(df.columns) - 1
    IN  [columns |-> <<ResetIndexLabel(attrs)>> \o attrs,
         data |-> [p \in 1..np |->
                     <<df.columns[p + 1]>> \o [i \in DOMAIN df.data |-> df.data[i][p + 1]]]]

\* df_calc.columns = [str(c).strip() for c in df_calc.columns]
StripColumns(df) == [df EXCEPT !.columns = [i \in DOMAIN @ |-> Strip(@[i])]]

\* The loop over cols that relabels '% Calories', from position i on.
RECURSIVE RelabelFrom(_, _, _)
RelabelFrom(cols, i, count_pct) ==
    IF i > Len(cols) THEN cols
    ELSE IF cols[i] = PctCalories /\ count_pct < Len(labels)
         THEN RelabelFrom([cols EXCEPT ![i] = labels[count_pct + 1]], i + 1, count_pct + 1)
         ELSE RelabelFrom(cols, i + 1, count_pct)

\* The relabelling with a count that starts again after any other column.
RECURSIVE RelabelRuns(_, _, _)
RelabelRuns(cols, i, count_pct) ==
    IF i > Len(cols) THEN cols
    ELSE IF cols[i] = PctCalories /\ count_pct < Len(labels)
         THEN RelabelRuns([cols EXCEPT ![i] = labels[count_pct + 1]], i + 1, count_pct + 1)
         ELSE RelabelRuns(cols, i + 1, 0)

RelabelConsecutive(cols) == RelabelRuns(cols, 1, 0)

Relabel(cols) == RelabelFrom(cols, 1, 0)

\* prot_col = [c for c in df_calc.columns if 'Protein (g/L)' in c]
prot_col(cols) == SelectSeq(cols, LAMBDA c : Contains(c, ProteinGL))

\* lambda x: 'Modular' if x in modular_names else 'Formula'
Category(x) == IF \E i \in DOMAIN modular_names : modular_names[i] = x THEN Modular ELSE Formula

NoFrame == [columns |-> <<>>, data |-> <<>>]
Raised(err) == [error |-> err, df_cards |-> NoFrame, df_calc |-> NoFrame]

\* The Card View: a copy of the filled table with its first column renamed.
CardView(filled) == RenameColumns(filled, filled.columns[1], LabelNutrientAttribute)

\* The Calculation View up to the relabelling of '% Calories' (lines 25-38).
Relabelled(filled) ==
    LET t == StripColumns(RenameColumns(Transposed(filled), LabelIndex, LabelProductName))
    IN  [t EXCEPT !.columns = Relabel(@)]

\* Lines 47-53 on the relabelled frame: the derived columns, or the exception
\* a column lookup raises.  A label carried by two columns selects a
\* DataFrame, not a Series, and the assignment (or the membership test of
\* line 53) then raises ValueError.
WithDerived(cards, c0) ==
    LET nDensity == Cardinality(Positions(c0.columns, ColDensity))
        c1 == SetColumn(c0, ColDensityNum,
                        [r \in DOMAIN c0.data |-> FloatCell(to_num(Column(c0, ColDensity)[r]))])
        pc == prot_col(c1.columns)
        nProt == IF pc = <<>> THEN 0 ELSE Cardinality(Positions(c1.columns, pc[1]))
        c2 == SetColumn(c1, ColProteinNum,
                        [r \in DOMAIN c1.data |->
                            IF pc = <<>> THEN FloatCell(Zero)
                            ELSE FloatCell(to_num(Column(c1, pc[1])[r]))])
        nName == Cardinality(Positions(c2.columns, LabelProductName))
        c3 == SetColumn(c2, ColCategory,
                        [r \in DOMAIN c2.data |-> Category(Column(c2, LabelProductName)[r])])
    IN  IF nDensity = 0 THEN Raised("KeyError")
        ELSE IF nDensity > 1 THEN Raised("ValueError")
        ELSE IF nProt > 1 THEN Raised("ValueError")
        ELSE IF nName = 0 THEN Raised("KeyError")
        ELSE IF nName > 1 THEN Raised("ValueError")
        ELSE [error |-> "", df_cards |-> cards, df_calc |-> c3]

\* load_data once pd.read_csv has returned raw: the two views, or the
\* exception that leaves load_data.
load_data(raw) ==
    LET filled == fillna(raw)
        attrs == [i \in DOMAIN filled.data |-> filled.data[i][1]]
    IN  IF \E i \in DOMAIN attrs : attrs[i] = LabelIndex
           /\ \E k \in DOMAIN attrs : attrs[k] = LabelLevel0
        THEN Raised("ValueError")
        ELSE WithDerived(CardView(filled), Relabelled(filled))

(***************************************************************************)
(* The calculator (section "TF Goal Rate & Protein Calculator").            *)
(***************************************************************************)
HoursMin == 1
HoursMax == 24
FeedsMin == 1
FeedsMax == 12
HoursPerDay == 24
RateStep == 5
BolusStep == 10
MlPerLiter == 1000
PacketGrams == 20
ScoopGrams == 6
PropofolKcalPerMl == Fin(11, 10)
ClevidipineKcalPerMl == Fin(2, 1)
Continuous == "Continuous/Cyclic"
Bolus == "Bolus"

\* round(x, 1)
Round1(x) == IF x.kind = "fin" THEN Fin(PyRound(FMul(x, FInt(10))), 10) ELSE x

\* A record of the calculator's names, with one more name bound.
With(r, name, value) == r @@ (name :> value)

\* line 123: med_kcal = (prop_rate * 24 * 1.1) + (clev_rate * 24 * 2.0)
med_kcal(r) ==
    With(r, "med_kcal",
         FAdd(FMul(FMul(r.prop_rate, FInt(HoursPerDay)), PropofolKcalPerMl),
              FMul(FMul(r.clev_rate, FInt(HoursPerDay)), ClevidipineKcalPerMl)))

\* net_kcal without the clamp at 0.
net_kcal_unclamped(r) == With(r, "net_kcal", FSub(FInt(r.target_kcal), r.med_kcal))

\* line 143: net_kcal = max(0, target_kcal - med_kcal)
net_kcal(r) ==
    LET d == FSub(FInt(r.target_kcal), r.med_kcal)
    IN  With(r, "net_kcal", IF FGt(d, Zero) THEN d ELSE Zero)

\* line 144: safe_density = density if density > 0 else 1.0
safe_density(r) ==
    With(r, "safe_density", IF FGt(r.density, Zero) THEN r.density ELSE FInt(1))

\* line 145: total_vol_needed = net_kcal / safe_density
total_vol_needed(r) == With(r, "total_vol_needed", FDiv(r.net_kcal, r.safe_density))

\* lines 148 and 154: raw_rate = total_vol_needed / hours, and raw_bolus
raw_dose(r) == With(r, "raw", FDiv(r.total_vol_needed, FInt(r.count)))

Step(method) == IF method = Continuous THEN RateStep ELSE BolusStep

\* final_dose that truncates to a multiple of the step instead of rounding.
final_dose_truncating(r) ==
    LET step == Step(r.method)
        rounded == step * (r.raw.num \div (r.raw.den * step))
    IN  With(r, "final", IF rounded = 0 /\ FGt(r.raw, Zero) THEN step ELSE rounded)

\* lines 149-150 and 155-156: int(step * round(raw / step)), and step when
\* that is 0 while raw > 0
final_dose(r) ==
    LET step == Step(r.method)
        rounded == step * PyRound(FDiv(r.raw, FInt(step)))
    IN  With(r, "final", IF rounded = 0 /\ FGt(r.raw, Zero) THEN step ELSE rounded)

\* lines 151 and 157: actual_vol = final_rate * hours
actual_vol(r) == With(r, "actual_vol", r.final * r.count)

\* line 160: prot_provided = (actual_vol / 1000) * prot_per_l
prot_provided(r) ==
    With(r, "prot_provided", FMul(Fin(r.actual_vol, MlPerLiter), r.prot_per_l))

\* line 161: prot_gap = target_prot - prot_provided
prot_gap(r) == With(r, "prot_gap", FSub(FInt(r.target_prot), r.prot_provided))

\* lines 167-173: the protein status shown, with the figures it shows
protein_status(r) ==
    IF FGt(r.prot_gap, Zero)
    THEN With(With(With(With(r, "status", "gap"),
                        "shown", Round1(r.prot_gap)),
                   "packets", Round1(FDiv(r.prot_gap, FInt(PacketGrams)))),
              "scoops", Round1(FDiv(r.prot_gap, FInt(ScoopGrams))))
    ELSE With(With(With(With(r, "status", "met"),
                        "shown", Round1(r.prot_provided)),
                   "packets", Zero),
              "scoops", Zero)

\* line 175: round(actual_vol * density) raises on a nan and on an inf
plan_summary(r) == With(r, "summary_raises", r.density.kind # "fin")

\* df_calc[df_calc['Category'] == 'Formula']['Product Name'].tolist()
formula_list(dfc) ==
    LET cat == Column(dfc, ColCategory)
        names == Column(dfc, LabelProductName)
        keep == SelectSeq([r \in DOMAIN dfc.data |-> r], LAMBDA r : cat[r] = Formula)
    IN  [k \in DOMAIN keep |-> names[keep[k]]]

\* df_calc[df_calc['Product Name'] == choice].iloc[0]
row(dfc, choice) ==
    LET names == Column(dfc, LabelProductName)
        r == CHOOSE q \in DOMAIN names :
                 names[q] = choice /\ \A k \in 1..(q - 1) : names[k] # choice
    IN  dfc.data[r]

Field(dfc, rw, name) == rw[CHOOSE j \in Positions(dfc.columns, name) : TRUE]

\* The calculator cannot select a product: the mask of line 129 is a frame
\* when two columns are labelled Category, and an empty formula list leaves
\* iloc[0] nothing to return.
NoChoice(dfc) ==
    \/ Cardinality(Positions(dfc.columns, ColCategory)) # 1
    \/ formula_list(dfc) = <<>>

\* Lines 132-175 for one set of widget values; count is hours or num_feeds.
Results(dfc, method, choice, target_kcal, target_prot, prop_rate, clev_rate, count) ==
    LET rw == row(dfc, choice)
    IN  plan_summary(protein_status(prot_gap(prot_provided(actual_vol(final_dose(
        raw_dose(total_vol_needed(safe_density(net_kcal(med_kcal(
          [method |-> method, choice |-> choice, count |-> count,
           target_kcal |-> target_kcal, target_prot |-> target_prot,
           prop_rate |-> prop_rate, clev_rate |-> clev_rate,
           density |-> CellFloat(Field(dfc, rw, ColDensityNum)),
           prot_per_l |-> CellFloat(Field(dfc, rw, ColProteinNum))])))))))))))

NoCalc == [method |-> "none"]

(***************************************************************************)
(* The raw tables and the inputs that are enumerated.                       *)
(***************************************************************************)
MaxAttrs == 4
MaxProducts == 2
MaxKcal == 40

AttrHeader == <<"A", "t", "t", "r", "i", "b", "u", "t", "e">>
Sodium == <<"S", "o", "d", "i", "u", "m">>
PctCaloriesPadded == <<"%", " ", "C", "a", "l", "o", "r", "i", "e", "s", " ">>
AttrNames == {PctCalories, PctCaloriesPadded, ColDensity, ProteinGL, Sodium, ColCategory}

Jevity15 == <<"J", "e", "v", "i", "t", "y", " ", "1", ".", "5">>
VitalAF == <<"V", "i", "t", "a", "l", " ", "A", "F">>
Osmolite == <<"O", "s", "m", "o", "l", "i", "t", "e">>
ProductOrder == <<Jevity15, ProsourceTF20, VitalAF, Osmolite>>

CellPool == << <<"1", ".", "5", " ", "k", "c", "a", "l", "/", "m", "L">>,
               <<"6", "3", ".", "8">>,
               NULL,
               <<"a", "b", "c">>,
               <<"2", ",", "5", "0", "0">>,
               <<"-", "1", ".", "5", " ", "k", "c", "a", "l", "/", "m", "L">>,
               <<"n", "a", "n", " ", "g">>,
               <<"i", "n", "f">> >>

\* The cell of attribute row i and product p in the table of offset off.
PoolCell(i, p, off) == CellPool[((i + p + off - 2) % Len(CellPool)) + 1]

RawTable(attrs, np, off) ==
    [columns |-> <<AttrHeader>> \o SubSeq(ProductOrder, 1, np),
     data |-> [i \in DOMAIN attrs |-> <<attrs[i]>> \o [p \in 1..np |-> PoolCell(i, p, off)]]]

AttrSeqs == UNION {[1..n -> AttrNames] : n \in 1..MaxAttrs}
Offsets == 0..(Len(CellPool) - 1)
ProductCounts == 1..MaxProducts

\* The tables of the calculator's runs: a Density row and a protein row.
CalcAttrs == <<ColDensity, ProteinGL>>

DefaultKcal == 1800
DefaultProt == 100
DefaultHours == 24
TargetKcals == (0..MaxKcal) \cup {-50, DefaultKcal}
TargetProts == {0, DefaultProt}
MedRates == {<<Zero, Zero>>, <<FInt(20), FInt(5)>>, <<Fin(1, 2), Zero>>}

(***************************************************************************)
(* The script as a state machine.                                           *)
(***************************************************************************)
Init ==
    /\ phase = "start"
    /\ raw_df = NoFrame
    /\ df_cards = NoFrame
    /\ df_calc = NoFrame
    /\ error = ""
    /\ calc = NoCalc

\* Line 57 when one of the two files can be read: load_data runs on its table.
\* An exception that leaves load_data ends the script.
LoadData ==
    /\ phase = "start"
    /\ \E attrs \in AttrSeqs, np \in ProductCounts, off \in Offsets :
          LET raw == RawTable(attrs, np, off)
              res == load_data(raw)
          IN  /\ raw_df' = raw
              /\ df_cards' = res.df_cards
              /\ df_calc' = res.df_calc
              /\ error' = res.error
              /\ phase' = IF res.error = "" THEN "loaded" ELSE "crashed"
    /\ UNCHANGED calc

\* Line 57 when neither file can be read: the except clause reads the second
\* file outside any try, and its exception leaves load_data and the script.
SourceUnavailable ==
    /\ phase = "start"
    /\ error' = "FileNotFoundError"
    /\ phase' = "crashed"
    /\ UNCHANGED <<raw_df, df_cards, df_calc, calc>>

\* The calculator section for one set of widget values.
Calculate(method, k, target_kcal, target_prot, rates, count) ==
    /\ phase = "loaded"
    /\ IF NoChoice(df_calc)
       THEN /\ phase' = "crashed"
            /\ error' = "IndexError"
            /\ UNCHANGED calc
       ELSE /\ k \in DOMAIN formula_list(df_calc)
            /\ calc' = Results(df_calc, method, formula_list(df_calc)[k], target_kcal,
                               target_prot, rates[1], rates[2], count)
            /\ phase' = "results"
            /\ UNCHANGED error
    /\ UNCHANGED <<raw_df, df_cards, df_calc>>

\* The calculator as first shown: every widget at its default value.
CalculatorDefault ==
    Calculate(Continuous, 1, DefaultKcal, DefaultProt, <<Zero, Zero>>, DefaultHours)

Next == LoadData \/ SourceUnavailable \/ CalculatorDefault

Spec == Init /\ [][Next]_vars

\* The calculator's runs: the views of a table with a Density and a protein
\* row are loaded, and the user sets the widgets.
InitCalc ==
    /\ phase = "loaded"
    /\ \E np \in ProductCounts, off \in Offsets :
          /\ raw_df = RawTable(CalcAttrs, np, off)
          /\ df_cards = load_data(raw_df).df_cards
          /\ df_calc = load_data(raw_df).df_calc
    /\ error = ""
    /\ calc = NoCalc

CalcContinuous ==
    /\ phase = "loaded"
    /\ \E k \in ProductCounts, kc \in TargetKcals, pr \in TargetProts, rates \in MedRates,
          hours \in HoursMin..HoursMax :
            Calculate(Continuous, k, kc, pr, rates, hours)

CalcBolus ==
    /\ phase = "loaded"
    /\ \E k \in ProductCounts, kc \in TargetKcals, pr \in TargetProts, rates \in MedRates,
          num_feeds \in FeedsMin..FeedsMax :
            Calculate(Bolus, k, kc, pr, rates, num_feeds)

NextCalc == CalcContinuous \/ CalcBolus

SpecCalc == InitCalc /\ [][NextCalc]_vars

(***************************************************************************)
(* Properties.                                                              *)
(***************************************************************************)
HasResults == phase = "results"
Loaded == df_calc # NoFrame
Filled(c) == IF c = NULL THEN EmptyText ELSE c
StepOf(method) == IF method = Bolus THEN 10 ELSE 5
\* raw > 0 and the nearest multiple of the step s is 0: the zero-correction applies.
ZeroCorrected(raw, s) == raw.num > 0 /\ 2 * raw.num <= s * raw.den

\* C1: the reported dose is a multiple of the step (5 mL/hr, 10 mL), it is
\* within half a step of volumeNeeded / count unless the zero-correction
\* applies, actualVolume is the dose times the count, and 1800 kcal at 1.5
\* kcal/mL gives 50 mL/hr over 24 hours and 240 mL over 5 feeds, 1200 mL each.
C1_NearestMultiple ==
    HasResults =>
        LET s == StepOf(calc.method)
            raw == calc.raw
            vol == calc.total_vol_needed
            example == /\ calc.target_kcal = 1800 /\ calc.density = Fin(3, 2)
                       /\ calc.prop_rate = Zero /\ calc.clev_rate = Zero
        IN  /\ calc.count \in (IF calc.method = Bolus THEN 1..12 ELSE 1..24)
            /\ vol.kind = "fin" /\ vol.num >= 0
            /\ raw.kind = "fin"
            /\ raw.num * vol.den * calc.count = vol.num * raw.den
            /\ calc.final % s = 0
            /\ ~ZeroCorrected(raw, s) =>
                   2 * Abs(calc.final * raw.den - raw.num) <= s * raw.den
            /\ calc.actual_vol = calc.final * calc.count
            /\ (example /\ calc.method = Continuous /\ calc.count = 24) =>
                   (calc.final = 50 /\ calc.actual_vol = 1200)
            /\ (example /\ calc.method = Bolus /\ calc.count = 5) =>
                   (calc.final = 240 /\ calc.actual_vol = 1200)

\* A tie that is not zero-corrected: 15 mL over 2 hours is 7.5 mL/hr, shown as 10.
C1_Witness ==
    /\ HasResults /\ calc.method = Continuous
    /\ calc.raw = Fin(15, 2) /\ calc.final = 10 /\ calc.actual_vol = 20

\* C2: the reported dose is 0 exactly when volumeNeeded / count is 0; a raw
\* value above 0 that rounds to 0 is reported as one step (5 or 10); no zero
\* dose is reported when netKcal > 0.
C2_ZeroCorrection ==
    HasResults =>
        LET s == StepOf(calc.method)
        IN  /\ (calc.final = 0) <=> (calc.raw.num = 0)
            /\ ZeroCorrected(calc.raw, s) => calc.final = s
            /\ calc.net_kcal.num > 0 => calc.final > 0

\* 3 mL over 24 hours: 0.125 mL/hr rounds to 0 and is shown as 5.
C2_Witness ==
    /\ HasResults /\ calc.method = Continuous /\ calc.count = 24
    /\ calc.raw = Fin(1, 8) /\ calc.final = 5

\* C3: volumeNeeded is a number >= 0 equal to
\* max(0, targetKcal - (propofol*24*1.1 + clevidipine*24*2.0)) over the
\* effective density, which is the density when that is > 0 and 1.0
\* otherwise; 20 mL/hr of propofol and 5 mL/hr of clevidipine are 768 kcal.
C3_VolumeNeeded ==
    HasResults =>
        LET pr == calc.prop_rate
            cl == calc.clev_rate
            medN == 264 * pr.num * cl.den + 480 * cl.num * pr.den
            medD == 10 * pr.den * cl.den
            netN == IF calc.target_kcal * medD > medN
                    THEN calc.target_kcal * medD - medN ELSE 0
            d == calc.density
            positive == d.kind # "nan" /\ d.num > 0
            vol == calc.total_vol_needed
        IN  /\ vol.kind = "fin" /\ vol.num >= 0
            /\ IF positive /\ d.kind = "inf" THEN vol.num = 0
               ELSE IF positive THEN vol.num * medD * d.num = netN * d.den * vol.den
               ELSE vol.num * medD = netN * vol.den
            /\ (pr = FInt(20) /\ cl = FInt(5)) => calc.med_kcal = FInt(768)

\* 1800 kcal less 768 kcal of medication at a negative density: 1032 mL.
C3_Witness ==
    /\ HasResults /\ calc.target_kcal = 1800 /\ calc.med_kcal = FInt(768)
    /\ calc.density.kind = "fin" /\ calc.density.num < 0
    /\ calc.total_vol_needed = FInt(1032)

\* C4: proteinProvided = (actualVolume / 1000) * proteinPerLiter and
\* proteinGap = targetProtein - proteinProvided; the deficit, with
\* proteinGap/20 packets and proteinGap/6 scoops, is reported exactly when
\* proteinGap > 0, and goal met exactly when proteinGap <= 0.
C4_ProteinStatus ==
    HasResults =>
        LET gap == calc.prot_gap
        IN  /\ calc.prot_provided = FMul(Fin(calc.actual_vol, 1000), calc.prot_per_l)
            /\ gap = FSub(FInt(calc.target_prot), calc.prot_provided)
            /\ (calc.status = "gap") <=> FGt(gap, Zero)
            /\ (calc.status = "met") <=> FLe(gap, Zero)
            /\ calc.status \in {"gap", "met"}
            /\ calc.status = "gap" =>
                   /\ calc.packets = Round1(FDiv(gap, FInt(20)))
                   /\ calc.scoops = Round1(FDiv(gap, FInt(6)))

AttrOf(i) == raw_df.data[i][1]
AttrRows == DOMAIN raw_df.data
ProductRows == DOMAIN df_calc.data

\* C5: no two columns of the Calculation View share a name, and no
\* attribute's data is dropped or overwritten.
C5_UniqueColumns ==
    Loaded =>
        /\ \A i, j \in DOMAIN df_calc.columns :
              i # j => df_calc.columns[i] # df_calc.columns[j]
        /\ \A p \in ProductRows, i \in AttrRows :
              df_calc.data[p][i + 1] = Filled(raw_df.data[i][p + 1])

\* The attribute rows named '% Calories' once stripped, in order.
PctRows == SelectSeq([i \in AttrRows |-> i], LAMBDA i : Strip(AttrOf(i)) = PctCalories)

NamedInOrder(names) ==
    (Loaded /\ Len(PctRows) >= 3) =>
        \A k \in 1..3 : df_calc.columns[PctRows[k] + 1] = names[k]

DerivedOf(p, name) ==
    CellFloat(df_calc.data[p][CHOOSE j \in Positions(df_calc.columns, name) : TRUE])

\* C7: density >= 0 and proteinPerLiter >= 0 for every product.
C7_NonNegative ==
    Loaded =>
        \A p \in ProductRows :
            /\ FGe(DerivedOf(p, ColDensityNum), Zero)
            /\ FGe(DerivedOf(p, ColProteinNum), Zero)

\* C8: once a raw table has been obtained load_data returns both views
\* without raising; a table with no Density column, or with no column
\* containing 'Protein (g/L)', gets 0.0 for every product.
C8_LoadCompletes ==
    raw_df # NoFrame =>
        /\ Loaded
        /\ error \notin {"KeyError", "ValueError"}
        /\ (\A i \in AttrRows : Strip(AttrOf(i)) # ColDensity) =>
               \A p \in ProductRows : DerivedOf(p, ColDensityNum) = Zero
        /\ (\A i \in AttrRows : ~Contains(AttrOf(i), ProteinGL)) =>
               \A p \in ProductRows : DerivedOf(p, ColProteinNum) = Zero

\* C9: when neither source can be read, the Normalizer returns a "no data"
\* result and raises nothing, and the calculator is not reached.
C9_NoDataResult ==
    (phase # "start" /\ raw_df = NoFrame) => (error = "" /\ calc = NoCalc)

\* C10: one Calculation View row per product column, in the raw table's
\* product order, and the Calculation View cell of product p for the i-th
\* attribute equals the Card View cell in row i, column p; no cell of either
\* view is a missing-value marker.
C10_Transpose ==
    Loaded =>
        /\ Len(df_calc.data) = Len(raw_df.columns) - 1
        /\ Len(df_cards.data) = Len(raw_df.data)
        /\ \A p \in ProductRows :
              /\ df_calc.data[p][1] = df_cards.columns[p + 1]
              /\ df_cards.columns[p + 1] = raw_df.columns[p + 1]
              /\ \A i \in AttrRows :
                    /\ df_calc.data[p][i + 1] = df_cards.data[i][p + 1]
                    /\ df_cards.data[i][p + 1] # NULL
====
